---------------------------- MODULE Spec2Model ----------------------------
(***************************************************************************)
(* blueapi: the controller CLI (src/src/blueapi/cli/cli.py) and the        *)
(* worker-side bridge (src/src/blueapi/service/app.py).                    *)
(*                                                                         *)
(* Spec        one invocation of a `blueapi controller ...` command, the   *)
(*             worker it talks to over REST, and the bus delivery thread   *)
(*             of the event bus client.                                    *)
(* ServiceSpec Service.run of the bridge and the handlers it registers.    *)
(*                                                                         *)
(* EventBusClient, BlueapiRestClient, the worker and the messaging         *)
(* template are imported by these files but defined elsewhere; their       *)
(* behaviour follows the written specification (sections 4.1, 4.2, 5).     *)
(***************************************************************************)
EXTENDS Integers, Sequences, FiniteSets, TLC

\* ------------------------------------------------------------- bounds
\* Events the worker emits during one CLI invocation.
MaxEvents == 3
\* Inbound broker requests the bridge handles.
MaxRequests == 2
\* In-process worker events the bridge republishes.
MaxWorkerEvents == 2

VARIABLES
    \* ---- controller CLI (cli.py)
    cmd,            \* the sub-command invoked
    stomp,          \* config.stomp is not None
    parameters,     \* the PARAMETERS argument of `run`
    timeout,        \* the --timeout option of `run`
    pc,             \* position of the command's main thread
    task_id,        \* run_plan's task_id
    finished_event, \* run_plan's deque
    out,            \* what the command printed or logged, in order
    exc,            \* the exception that escaped the command ("" if none)
    processed,      \* the event handed to process_event_after_finished
    \* ---- event bus client (modelled from the specification)
    connected,      \* the broker connection is open
    subscription,   \* the subscriptions of the client
    completeBuf,    \* the single-slot completion buffer
    timed_out,      \* EventBusClient.timed_out
    waited,         \* wait_for_complete put the caller to sleep
    inflight,       \* events the broker handed to the delivery thread
    dcur,           \* the event the delivery thread is working on
    observed,       \* every event the registered handler was invoked with
    \* ---- worker and transports (environment)
    trace,          \* REST and bus operations the command attempted
    workerTasks,    \* task ids registered on the worker
    started,        \* task ids the worker was told to start
    emitted,        \* number of events the worker has published
    \* ---- worker-side bridge (service/app.py)
    spc,            \* position of Service.run
    workerSubs,     \* in-process worker streams the bridge listens to
    tconnected,     \* the bridge's template is connected
    topicSubs,      \* broker topic -> handler registered for it
    uuidClock,      \* the last timestamp uuid1 handed out
    submitted,      \* tasks submitted to the worker, in order
    sent,           \* messages the bridge's template sent, in order
    failures,       \* handler invocations that ended in an exception
    requests,       \* inbound requests delivered so far
    wevents,        \* in-process worker events emitted so far
    devices,        \* ctx.devices
    plans           \* ctx.plans

cliVars == <<cmd, stomp, parameters, timeout, pc, task_id, finished_event, out,
             exc, processed, connected, subscription, completeBuf, timed_out,
             waited, inflight, dcur, observed, trace, workerTasks, started,
             emitted>>
svcVars == <<spc, workerSubs, tconnected, topicSubs, uuidClock, submitted, sent,
             failures, requests, wevents, devices, plans>>
vars == <<cliVars, svcVars>>

\* ------------------------------------------------------------ helpers
Last(s) == s[Len(s)]
Front(s) == SubSeq(s, 1, Len(s) - 1)
Range(s) == {s[i] : i \in 1..Len(s)}
Msg(k, a) == [kind |-> k, arg |-> a]
Op(o, a) == [op |-> o, arg |-> a]

\* ------------------------------------------------- inputs and events
Commands == {"run", "listen", "plans", "devices", "state", "pause", "resume",
             "abort", "stop"}
\* PARAMETERS of `run`: JSON that validates, JSON that does not, not JSON.
Params == {"valid", "invalid", "not_json"}
\* --timeout: None (hang forever), 0, or a positive number of seconds.
Timeouts == {"none", "zero", "pos"}
\* The id create_task answers with, and the id of somebody else's task.
TaskIds == {"t1"}
EventIds == TaskIds \cup {"other"}
ErrLists == {<<>>, <<"e1">>, <<"e1", "e2">>}
WarnLists == {<<>>, <<"w1">>}
\* WorkerEvent: task reference, is_complete(), errors, warnings; sn tells one
\* event object from another.
WorkerEvents == [task : EventIds, complete : BOOLEAN, errors : ErrLists,
                 warnings : WarnLists, sn : 1..MaxEvents]
\* What the worker puts on the bus as its n-th event.  An event that is not
\* complete carries no verdict yet; of the events of other tasks, which no
\* handler of run_plan ever reads, only is_complete() is told apart.
Emittable(n) == {e \in WorkerEvents :
                   /\ e.sn = n
                   /\ (~e.complete \/ e.task \notin TaskIds) =>
                         (e.errors = <<>> /\ e.warnings = <<>>)}
is_complete(e) == e.complete
is_error(e) == e.errors # <<>>

\* ------------------------------------------------ cli.py, pure parts
\* Mutant of check_connection: the wrapper lets every exception through.
check_connection_reraise(e) == [exc |-> e, out |-> <<>>]

\* check_connection: only requests' ConnectionError is caught and reported.
check_connection(e) ==
    IF e = "ConnectionError"
    THEN [exc |-> "",
          out |-> <<Msg("print", "Failed to establish connection to FastAPI server.")>>]
    ELSE [exc |-> e, out |-> <<>>]

\* Mutant of store_finished_event: the test is inverted.
store_finished_event_inverted(dq, event) ==
    IF ~is_complete(event) THEN Append(dq, event) ELSE dq

\* store_finished_event: every complete event is appended to the deque.
store_finished_event(dq, event) ==
    IF is_complete(event) THEN Append(dq, event) ELSE dq

\* deque.pop(): the element at the right end.
deque_pop(dq) == Last(dq)

\* Mutant of process_event_after_finished: the error branch does not return,
\* so the function goes on to its last line.
process_event_after_finished_no_return(event) ==
    (IF is_error(event)
     THEN <<Msg("info", "Failed with errors")>>
          \o [i \in 1..Len(event.errors) |-> Msg("error", event.errors[i])]
     ELSE <<>>)
    \o <<Msg("info", "Plan passed")>>

\* process_event_after_finished: what it logs for the event.
process_event_after_finished(event) ==
    IF is_error(event)
    THEN <<Msg("info", "Failed with errors")>>
         \o [i \in 1..Len(event.errors) |-> Msg("error", event.errors[i])]
    ELSE IF Len(event.warnings) # 0
    THEN <<Msg("info", "Passed with warnings")>>
         \o [i \in 1..Len(event.warnings) |-> Msg("warn", event.warnings[i])]
    ELSE <<Msg("info", "Plan passed")>>

\* The command ends: normally (e = ""), or with exception e reaching the
\* check_connection wrapper.
EndCommand(e, msgs) ==
    /\ pc' = "done"
    /\ exc' = check_connection(e).exc
    /\ out' = out \o msgs \o check_connection(e).out

\* ------------------------------- event bus client (from the specification)
\* __enter__: connect.  A failed connect raises before anything is subscribed.
BusConnect ==
    /\ connected' = TRUE
    /\ trace' = Append(trace, Op("connect", ""))

\* __exit__: disconnect; the subscriptions die with the connection and what
\* the broker had queued for the client is discarded.
BusDisconnect ==
    /\ connected' = FALSE
    /\ subscription' = {}
    /\ inflight' = <<>>
    /\ trace' = Append(trace, Op("disconnect", ""))

cliEnv == <<workerTasks, started, emitted>>
cliBus == <<connected, subscription, completeBuf, timed_out, waited, inflight,
            dcur, observed>>
\* What no step of a CLI command changes: its inputs, and the bridge.
cliFrame == <<cmd, stomp, parameters, timeout, svcVars>>

\* ---------------------------------------------------- cli.py, run_plan
\* Mutant of the start of run_plan: the missing-configuration branch reports
\* but does not return.
rp_setup_no_return ==
    /\ cmd = "run" /\ pc = "start"
    /\ IF parameters = "not_json"
       THEN EndCommand("JSONDecodeError", <<>>)
       ELSE /\ pc' = "create"
            /\ out' = IF stomp THEN out
                      ELSE Append(out, Msg("pprint",
                "ERROR: Cannot run plans without Stomp configuration to track progress"))
            /\ UNCHANGED exc
    /\ finished_event' = <<>>
    /\ task_id' = ""
    /\ UNCHANGED <<cliFrame, processed, cliBus, trace, cliEnv>>

\* Lines 177-195: without stomp configuration the command reports and
\* returns; otherwise the client and the deque are built and PARAMETERS is
\* parsed (json.loads sits outside the try block).
rp_setup ==
    /\ cmd = "run" /\ pc = "start"
    /\ IF ~stomp
       THEN EndCommand("", <<Msg("pprint",
                "ERROR: Cannot run plans without Stomp configuration to track progress")>>)
       ELSE IF parameters = "not_json"
       THEN EndCommand("JSONDecodeError", <<>>)
       ELSE pc' = "create" /\ UNCHANGED <<out, exc>>
    /\ finished_event' = <<>>
    /\ task_id' = ""
    /\ UNCHANGED <<cliFrame, processed, cliBus, trace, cliEnv>>

\* Mutant of rp_create_task: the ValidationError branch reports but does not
\* return, so the command goes on into the block.
rp_create_task_no_return ==
    /\ cmd = "run" /\ pc = "create"
    /\ parameters = "invalid"
    /\ out' = Append(out, Msg("pprint", "failed to validate the task parameters"))
    /\ pc' = "enter"
    /\ UNCHANGED <<exc, task_id, workerTasks, trace, cliFrame, finished_event,
                   processed, cliBus, started, emitted>>

\* Lines 196-208: Task(...) and client.create_task.  Validation fails on
\* the client (pydantic) or on the server; the other failures come from the
\* transport or the worker.
CreateOutcomes == {"ok", "BlueskyRemoteError", "ValueError", "ConnectionError"}
rp_create_task ==
    /\ cmd = "run" /\ pc = "create"
    /\ IF parameters = "invalid"
       THEN /\ \E sentToServer \in BOOLEAN :
                 trace' = IF sentToServer
                          THEN Append(trace, Op("create_task", "rejected"))
                          ELSE trace
            /\ EndCommand("", <<Msg("pprint", "failed to validate the task parameters")>>)
            /\ UNCHANGED <<task_id, workerTasks>>
       ELSE \E o \in CreateOutcomes :
              CASE o = "ok" ->
                     \E id \in TaskIds :
                        /\ task_id' = id
                        /\ workerTasks' = workerTasks \cup {id}
                        /\ trace' = Append(trace, Op("create_task", id))
                        /\ pc' = "enter"
                        /\ UNCHANGED <<out, exc>>
                [] o = "BlueskyRemoteError" ->
                     /\ trace' = Append(trace, Op("create_task", "rejected"))
                     /\ EndCommand("", <<Msg("pprint", "server error with this message")>>)
                     /\ UNCHANGED <<task_id, workerTasks>>
                [] o = "ValueError" ->
                     /\ trace' = Append(trace, Op("create_task", "rejected"))
                     /\ EndCommand("", <<Msg("pprint", "task could not run")>>)
                     /\ UNCHANGED <<task_id, workerTasks>>
                [] o = "ConnectionError" ->
                     /\ trace' = Append(trace, Op("create_task", "unreachable"))
                     /\ EndCommand("ConnectionError", <<>>)
                     /\ UNCHANGED <<task_id, workerTasks>>
    /\ UNCHANGED <<cliFrame, finished_event, processed, cliBus, started, emitted>>

\* Mutant of rp_enter: the start command is issued without subscribing first.
rp_enter_start_first ==
    /\ cmd = "run" /\ pc = "enter"
    /\ BusConnect
    /\ pc' = "update"
    /\ UNCHANGED <<out, exc, cliFrame, task_id, finished_event, processed,
                   subscription, completeBuf, timed_out, waited, inflight, dcur,
                   observed, cliEnv>>

\* Line 210, entering the block: the broker connection is opened, or the
\* connect fails and its error leaves the command.
rp_enter ==
    /\ cmd = "run" /\ pc = "enter"
    /\ \/ /\ BusConnect
          /\ pc' = "subscribe"
          /\ UNCHANGED <<out, exc>>
       \/ /\ EndCommand("ConnectFailedException", <<>>)
          /\ UNCHANGED <<connected, trace>>
    /\ UNCHANGED <<cliFrame, task_id, finished_event, processed, subscription,
                   completeBuf, timed_out, waited, inflight, dcur, observed, cliEnv>>

\* Line 211: subscribe_to_topics(task_id, on_event=store_finished_event); an
\* error leaves the block, which disconnects.
rp_subscribe ==
    /\ cmd = "run" /\ pc = "subscribe"
    /\ \/ /\ subscription' = {task_id}
          /\ trace' = Append(trace, Op("subscribe", task_id))
          /\ pc' = "update"
          /\ UNCHANGED <<out, exc, connected, inflight>>
       \/ /\ BusDisconnect
          /\ EndCommand("BlueskyRemoteError", <<>>)
    /\ UNCHANGED <<cliFrame, task_id, finished_event, processed, completeBuf,
                   timed_out, waited, dcur, observed, cliEnv>>

\* Line 212: client.update_worker_task(WorkerTask(task_id)), the start
\* command; an error leaves the block, which disconnects.
rp_update_worker_task ==
    /\ cmd = "run" /\ pc = "update"
    /\ \E o \in {"ok", "BlueskyRemoteError", "ConnectionError"} :
         CASE o = "ok" ->
                /\ trace' = Append(trace, Op("update_worker_task", task_id))
                /\ started' = started \cup {task_id}
                /\ pc' = "wait"
                /\ UNCHANGED <<out, exc, connected, subscription, inflight>>
           [] o = "BlueskyRemoteError" ->
                /\ connected' = FALSE /\ subscription' = {} /\ inflight' = <<>>
                /\ trace' = trace \o <<Op("update_worker_task", "rejected"),
                                       Op("disconnect", "")>>
                /\ EndCommand(o, <<>>)
                /\ UNCHANGED started
           [] o = "ConnectionError" ->
                /\ connected' = FALSE /\ subscription' = {} /\ inflight' = <<>>
                /\ trace' = trace \o <<Op("update_worker_task", "unreachable"),
                                       Op("disconnect", "")>>
                /\ EndCommand(o, <<>>)
                /\ UNCHANGED started
    /\ UNCHANGED <<cliFrame, task_id, finished_event, processed, completeBuf,
                   timed_out, waited, dcur, observed, workerTasks, emitted>>

\* Mutant of wait_for_complete: the caller is put to sleep whatever the
\* timeout.
rp_wait_block_any_timeout ==
    /\ cmd = "run" /\ pc = "wait"
    /\ completeBuf = <<>> /\ ~waited
    /\ waited' = TRUE
    /\ UNCHANGED <<cliFrame, pc, task_id, finished_event, out, exc, processed,
                   connected, subscription, completeBuf, timed_out, inflight,
                   dcur, observed, trace, cliEnv>>

\* Line 214, wait_for_complete(timeout): the caller sleeps while the buffer
\* is empty (never with timeout 0) ...
rp_wait_block ==
    /\ cmd = "run" /\ pc = "wait"
    /\ completeBuf = <<>> /\ timeout # "zero" /\ ~waited
    /\ waited' = TRUE
    /\ UNCHANGED <<cliFrame, pc, task_id, finished_event, out, exc, processed,
                   connected, subscription, completeBuf, timed_out, inflight,
                   dcur, observed, trace, cliEnv>>

\* ... returns once the buffer holds a terminal event ...
rp_wait_complete ==
    /\ cmd = "run" /\ pc = "wait"
    /\ completeBuf # <<>>
    /\ timed_out' = "false"
    /\ pc' = "check"
    /\ UNCHANGED <<cliFrame, task_id, finished_event, out, exc, processed,
                   connected, subscription, completeBuf, waited, inflight, dcur,
                   observed, trace, cliEnv>>

\* ... or when the timeout elapses, raising nothing and setting timed_out ...
rp_wait_timeout ==
    /\ cmd = "run" /\ pc = "wait"
    /\ completeBuf = <<>>
    /\ timeout = "zero" \/ (timeout = "pos" /\ waited)
    /\ timed_out' = "true"
    /\ pc' = "check"
    /\ UNCHANGED <<cliFrame, task_id, finished_event, out, exc, processed,
                   connected, subscription, completeBuf, waited, inflight, dcur,
                   observed, trace, cliEnv>>

\* ... and a broker-level error while subscribed reaches the waiting caller
\* as a remote error, which leaves the block.
rp_wait_error ==
    /\ cmd = "run" /\ pc = "wait"
    /\ BusDisconnect
    /\ EndCommand("BlueskyRemoteError", <<>>)
    /\ UNCHANGED <<cliFrame, task_id, finished_event, processed, completeBuf,
                   timed_out, waited, dcur, observed, cliEnv>>

\* Mutant of rp_timed_out: the return on timeout does not run the block's
\* exit, so the connection stays open.
rp_timed_out_leak ==
    /\ cmd = "run" /\ pc = "check"
    /\ timed_out = "true"
    /\ EndCommand("", <<Msg("error", "Plan did not complete within timeout")>>)
    /\ UNCHANGED <<cliFrame, task_id, finished_event, processed, cliBus, trace,
                   cliEnv>>

\* Mutant of rp_timed_out: the timeout also cancels the task on the worker.
rp_timed_out_cancel ==
    /\ cmd = "run" /\ pc = "check"
    /\ timed_out = "true"
    /\ connected' = FALSE /\ subscription' = {} /\ inflight' = <<>>
    /\ trace' = trace \o <<Op("cancel_current_task", "ABORTING"), Op("disconnect", "")>>
    /\ EndCommand("", <<Msg("error", "Plan did not complete within timeout")>>)
    /\ UNCHANGED <<cliFrame, task_id, finished_event, processed, completeBuf,
                   timed_out, waited, dcur, observed, cliEnv>>

\* Lines 216-218: on timeout the command logs and returns from inside the
\* block, which disconnects.
rp_timed_out ==
    /\ cmd = "run" /\ pc = "check"
    /\ timed_out = "true"
    /\ BusDisconnect
    /\ EndCommand("", <<Msg("error", "Plan did not complete within timeout")>>)
    /\ UNCHANGED <<cliFrame, task_id, finished_event, processed, completeBuf,
                   timed_out, waited, dcur, observed, cliEnv>>

\* Lines 216 and 210: not timed out, the block ends and disconnects.
rp_leave_block ==
    /\ cmd = "run" /\ pc = "check"
    /\ timed_out # "true"
    /\ BusDisconnect
    /\ pc' = "process"
    /\ UNCHANGED <<cliFrame, task_id, finished_event, out, exc, processed,
                   completeBuf, timed_out, waited, dcur, observed, cliEnv>>

\* Lines 220-221: the event popped from the deque goes to
\* process_event_after_finished, then the start command's answer is printed.
rp_process ==
    /\ cmd = "run" /\ pc = "process"
    /\ IF finished_event = <<>>
       THEN /\ EndCommand("IndexError", <<>>)
            /\ UNCHANGED <<finished_event, processed>>
       ELSE /\ processed' = <<deque_pop(finished_event)>>
            /\ finished_event' = Front(finished_event)
            /\ EndCommand("", process_event_after_finished(deque_pop(finished_event))
                              \o <<Msg("pprint", "updated")>>)
    /\ UNCHANGED <<cliFrame, task_id, cliBus, trace, cliEnv>>

\* -------------------------------------- bus delivery thread of the client
\* The worker publishes an event.  It reaches a client that is subscribed
\* at that moment; nothing is replayed to later subscribers.  Events of the
\* tracked task exist only once the task was started.
WorkerEmit ==
    /\ pc # "done" /\ emitted < MaxEvents
    /\ \E e \in Emittable(emitted + 1) :
         /\ (cmd = "run" /\ e.task \in TaskIds) => e.task \in started
         /\ inflight' = IF connected /\ subscription # {}
                        THEN Append(inflight, e) ELSE inflight
    /\ emitted' = emitted + 1
    /\ UNCHANGED <<cliFrame, pc, task_id, finished_event, out, exc, processed,
                   connected, subscription, completeBuf, timed_out, waited, dcur,
                   observed, trace, workerTasks, started>>

\* subscribe_to_topics' wrapper, first half: the registered handler
\* (store_finished_event) is invoked for an event whose task reference
\* matches the subscribed id.
DeliverHandler ==
    /\ cmd = "run" /\ pc # "done"
    /\ dcur = <<>> /\ inflight # <<>>
    /\ LET e == Head(inflight)
           match == e.task \in subscription
       IN /\ dcur' = <<[ev |-> e, match |-> match]>>
          /\ finished_event' = IF match THEN store_finished_event(finished_event, e)
                               ELSE finished_event
          /\ observed' = IF match THEN Append(observed, e) ELSE observed
    /\ inflight' = Tail(inflight)
    /\ UNCHANGED <<cliFrame, pc, task_id, out, exc, processed, connected,
                   subscription, completeBuf, timed_out, waited, trace, cliEnv>>

\* Second half: the first terminal event of the tracked id is captured into
\* the single-slot completion buffer; later ones are dropped.
DeliverCapture ==
    /\ cmd = "run" /\ pc # "done"
    /\ dcur # <<>>
    /\ LET d == dcur[1]
       IN completeBuf' = IF d.match /\ is_complete(d.ev) /\ completeBuf = <<>>
                         THEN <<d.ev>> ELSE completeBuf
    /\ dcur' = <<>>
    /\ UNCHANGED <<cliFrame, pc, task_id, finished_event, out, exc, processed,
                   connected, subscription, timed_out, waited, inflight,
                   observed, trace, cliEnv>>

\* ------------------------------------------- cli.py, listen_to_events
\* Lines 137-155: without stomp configuration a RuntimeError is raised.
ls_setup ==
    /\ cmd = "listen" /\ pc = "start"
    /\ IF ~stomp
       THEN EndCommand("RuntimeError", <<>>)
       ELSE /\ pc' = "enter"
            /\ out' = Append(out, Msg("print", "Subscribing to all bluesky events"))
            /\ UNCHANGED exc
    /\ UNCHANGED <<cliFrame, task_id, finished_event, processed, cliBus, trace,
                   cliEnv>>

\* Line 156, entering the block.
ls_enter ==
    /\ cmd = "listen" /\ pc = "enter"
    /\ \/ /\ BusConnect
          /\ pc' = "subscribe"
          /\ UNCHANGED <<out, exc>>
       \/ /\ EndCommand("ConnectFailedException", <<>>)
          /\ UNCHANGED <<connected, trace>>
    /\ UNCHANGED <<cliFrame, task_id, finished_event, processed, subscription,
                   completeBuf, timed_out, waited, inflight, dcur, observed, cliEnv>>

\* Line 157: subscribe_to_all_events(on_event).
ls_subscribe ==
    /\ cmd = "listen" /\ pc = "subscribe"
    /\ \/ /\ subscription' = {"*"}
          /\ trace' = Append(trace, Op("subscribe", "*"))
          /\ pc' = "input"
          /\ UNCHANGED <<out, exc, connected, inflight>>
       \/ /\ BusDisconnect
          /\ EndCommand("BlueskyRemoteError", <<>>)
    /\ UNCHANGED <<cliFrame, task_id, finished_event, processed, completeBuf,
                   timed_out, waited, dcur, observed, cliEnv>>

\* Line 158: input() returns (or is interrupted) and the block ends.
ls_input ==
    /\ cmd = "listen" /\ pc = "input"
    /\ BusDisconnect
    /\ \E e \in {"", "EOFError"} : EndCommand(e, <<>>)
    /\ UNCHANGED <<cliFrame, task_id, finished_event, processed, completeBuf,
                   timed_out, waited, dcur, observed, cliEnv>>

\* Lines 145-150: on_event prints every event delivered, whatever its task.
ls_on_event ==
    /\ cmd = "listen" /\ pc # "done"
    /\ inflight # <<>>
    /\ out' = Append(out, Msg("event", ToString(Head(inflight).sn)))
    /\ observed' = Append(observed, Head(inflight))
    /\ inflight' = Tail(inflight)
    /\ UNCHANGED <<cliFrame, pc, task_id, finished_event, exc, processed,
                   connected, subscription, completeBuf, timed_out, waited, dcur,
                   trace, cliEnv>>

\* ------------------------------- cli.py, the commands of one REST call
\* The REST operations answer, are refused by the worker (remote error), or
\* never reach it (connection error).
RestOutcomes == {"ok", "BlueskyRemoteError", "ConnectionError"}

RestCommand(name, op, arg) ==
    /\ cmd = name /\ pc = "start"
    /\ \E o \in RestOutcomes :
         /\ trace' = CASE o = "ok" -> Append(trace, Op(op, arg))
                       [] o = "BlueskyRemoteError" -> Append(trace, Op(op, "rejected"))
                       [] o = "ConnectionError" -> Append(trace, Op(op, "unreachable"))
         /\ IF o = "ok" THEN EndCommand("", <<Msg("pprint", op)>>)
                        ELSE EndCommand(o, <<>>)
    /\ UNCHANGED <<cliFrame, task_id, finished_event, processed, cliBus, cliEnv>>

\* Lines 114-120.
get_plans == RestCommand("plans", "get_plans", "")
\* Lines 123-129.
get_devices == RestCommand("devices", "get_devices", "")
\* Lines 224-231.
get_state == RestCommand("state", "get_state", "")
\* Lines 234-242.
pause == \E defer \in {"defer", "now"} : RestCommand("pause", "set_state", "PAUSED," \o defer)
\* Lines 245-252.
resume == RestCommand("resume", "set_state", "RUNNING")
\* Lines 255-266.
abort == \E reason \in {"None", "why"} :
            RestCommand("abort", "cancel_current_task", "ABORTING," \o reason)
\* Lines 269-278.
stop == RestCommand("stop", "cancel_current_task", "STOPPING")

\* ------------------------------------------------------- Spec (the CLI)
CliInit ==
    /\ cmd \in Commands
    /\ stomp \in (IF cmd \in {"run", "listen"} THEN BOOLEAN ELSE {TRUE})
    /\ parameters \in (IF cmd = "run" THEN Params ELSE {"valid"})
    /\ timeout \in (IF cmd = "run" THEN Timeouts ELSE {"none"})
    /\ pc = "start"
    /\ task_id = ""
    /\ finished_event = <<>>
    /\ out = <<>>
    /\ exc = ""
    /\ processed = <<>>
    /\ connected = FALSE
    /\ subscription = {}
    /\ completeBuf = <<>>
    /\ timed_out = "unset"
    /\ waited = FALSE
    /\ inflight = <<>>
    /\ dcur = <<>>
    /\ observed = <<>>
    /\ trace = <<>>
    /\ workerTasks = {}
    /\ started = {}
    /\ emitted = 0

CliNext ==
    \/ rp_setup
    \/ rp_create_task
    \/ rp_enter
    \/ rp_subscribe
    \/ rp_update_worker_task
    \/ rp_wait_block
    \/ rp_wait_complete
    \/ rp_wait_timeout
    \/ rp_wait_error
    \/ rp_timed_out
    \/ rp_leave_block
    \/ rp_process
    \/ WorkerEmit
    \/ DeliverHandler
    \/ DeliverCapture
    \/ ls_setup
    \/ ls_enter
    \/ ls_subscribe
    \/ ls_input
    \/ ls_on_event
    \/ get_plans
    \/ get_devices
    \/ get_state
    \/ pause
    \/ resume
    \/ abort
    \/ stop

\* ------------------------------------------- service/app.py, pure parts
\* BLUESKY_PROTOCOLS, in the order _protocol_names walks it.
BLUESKY_PROTOCOLS == <<"Movable", "Readable", "Flyable">>
NoReply == "None"
ReplyDests == {"reply.a", "reply.b"}
RunPlans == {"sleep", "move"}
Topics == {"worker.run", "worker.plans", "worker.devices"}
EventKinds == {"worker", "task", "data"}

RECURSIVE SelectSeq2(_, _)
\* The members of sequence s that are in set S, in s's order.
SelectSeq2(s, S) ==
    IF s = <<>> THEN <<>>
    ELSE (IF Head(s) \in S THEN <<Head(s)>> ELSE <<>>) \o SelectSeq2(Tail(s), S)

\* _protocol_names (lines 100-103).
protocol_names(device) == SelectSeq2(BLUESKY_PROTOCOLS, device.protocols)

\* _display_plan (lines 85-86).
display_plan(plan) == [name |-> plan]

\* _display_device (lines 89-97).
display_device(device) ==
    [name |-> IF "Readable" \in device.protocols \/ "Flyable" \in device.protocols
              THEN device.name ELSE "UNKNOWN",
     protocols |-> protocol_names(device)]

PlanDescriptors == [i \in 1..Len(plans) |-> display_plan(plans[i])]
DeviceDescriptors == [i \in 1..Len(devices) |-> display_device(devices[i])]

\* uuid.uuid1() (line 68): time-based, and the library never hands out a
\* timestamp twice in one process.
uuid1 == uuidClock + 1

Sent(dest, kind, body, req) ==
    [dest |-> dest, payload |-> [kind |-> kind, body |-> body], req |-> req]

\* ---------------------------------------- service/app.py, the handlers
\* Mutant of _on_run_request: the reply carries a second, newly generated
\* id instead of the one the task was submitted under.
Service_on_run_request_second_id(i, reply, task) ==
    /\ uuidClock' = uuid1 + 1
    /\ submitted' = Append(submitted, [name |-> uuid1, task |-> task, req |-> i])
    /\ IF reply = NoReply
       THEN /\ failures' = Append(failures, [req |-> i, exc |-> "AssertionError"])
            /\ UNCHANGED sent
       ELSE /\ sent' = Append(sent, Sent(reply, "id", uuid1 + 1, i))
            /\ UNCHANGED failures

\* Mutant of _on_run_request: the reply destination is checked first, so a
\* request without one submits nothing.
Service_on_run_request_check_first(i, reply, task) ==
    IF reply = NoReply
    THEN /\ failures' = Append(failures, [req |-> i, exc |-> "AssertionError"])
         /\ UNCHANGED <<sent, uuidClock, submitted>>
    ELSE /\ uuidClock' = uuid1
         /\ submitted' = Append(submitted, [name |-> uuid1, task |-> task, req |-> i])
         /\ sent' = Append(sent, Sent(reply, "id", uuid1, i))
         /\ UNCHANGED failures

\* _on_run_request (lines 67-72); i is the request's number.
Service_on_run_request(i, reply, task) ==
    /\ uuidClock' = uuid1
    /\ submitted' = Append(submitted, [name |-> uuid1, task |-> task, req |-> i])
    /\ IF reply = NoReply
       THEN /\ failures' = Append(failures, [req |-> i, exc |-> "AssertionError"])
            /\ UNCHANGED sent
       ELSE /\ sent' = Append(sent, Sent(reply, "id", uuid1, i))
            /\ UNCHANGED failures

\* Mutant of _get_plans: the reply destination is not checked before the
\* send.
Service_get_plans_unchecked(i, reply, task) ==
    /\ sent' = Append(sent, Sent(reply, "plans", PlanDescriptors, i))
    /\ UNCHANGED <<failures, uuidClock, submitted>>

\* _get_plans (lines 74-77).
Service_get_plans(i, reply, task) ==
    /\ IF reply = NoReply
       THEN /\ failures' = Append(failures, [req |-> i, exc |-> "AssertionError"])
            /\ UNCHANGED sent
       ELSE /\ sent' = Append(sent, Sent(reply, "plans", PlanDescriptors, i))
            /\ UNCHANGED failures
    /\ UNCHANGED <<uuidClock, submitted>>

\* _get_devices (lines 79-82).  Service.run registers it for no topic.
Service_get_devices(i, reply, task) ==
    /\ IF reply = NoReply
       THEN /\ failures' = Append(failures, [req |-> i, exc |-> "AssertionError"])
            /\ UNCHANGED sent
       ELSE /\ sent' = Append(sent, Sent(reply, "devices", DeviceDescriptors, i))
            /\ UNCHANGED failures
    /\ UNCHANGED <<uuidClock, submitted>>

Invoke(handler, i, reply, task) ==
    CASE handler = "_on_run_request" -> Service_on_run_request(i, reply, task)
      [] handler = "_get_plans" -> Service_get_plans(i, reply, task)
      [] handler = "_get_devices" -> Service_get_devices(i, reply, task)

\* The handlers Service.run registers on the broker (lines 52-54), in order.
TopicHandlers ==
    <<[topic |-> "worker.run", handler |-> "_on_run_request"],
      [topic |-> "worker.plans", handler |-> "_get_plans"],
      [topic |-> "worker.devices", handler |-> "_get_plans"]>>

\* Mutant of the republishing callbacks: every stream goes to the
\* worker-state topic.
EventTopic_one_topic(kind) == "worker.event"

\* The topic each in-process worker stream is republished to (lines 58-65).
EventTopic(kind) ==
    CASE kind = "worker" -> "worker.event"
      [] kind = "task" -> "worker.event.task"
      [] kind = "data" -> "worker.event.data"

\* What no step of the bridge changes: the registry built at import, and
\* the CLI.
svcFrame == <<devices, plans, cliVars>>

\* ------------------------------------------- service/app.py, Service.run
\* Mutant of Service.run: the broker subscriptions come before the connect,
\* which is then never made.
Service_run_listen_no_connect ==
    /\ spc = "init"
    /\ workerSubs' = EventKinds
    /\ spc' = "subscribe"
    /\ UNCHANGED <<tconnected, topicSubs, uuidClock, submitted, sent, failures,
                   requests, wevents, svcFrame>>

\* Lines 46-48: the bridge listens to the three in-process streams.
Service_run_listen ==
    /\ spc = "init"
    /\ workerSubs' = EventKinds
    /\ spc' = "connect"
    /\ UNCHANGED <<tconnected, topicSubs, uuidClock, submitted, sent, failures,
                   requests, wevents, svcFrame>>

\* Line 50: connect; a failed connect ends Service.run with its error.
Service_run_connect ==
    /\ spc = "connect"
    /\ \/ tconnected' = TRUE /\ spc' = "subscribe"
       \/ tconnected' = FALSE /\ spc' = "crashed"
    /\ UNCHANGED <<workerSubs, topicSubs, uuidClock, submitted, sent, failures,
                   requests, wevents, svcFrame>>

\* Lines 52-54, one subscribe at a time.
Service_run_subscribe ==
    /\ spc = "subscribe"
    /\ LET n == Cardinality(DOMAIN topicSubs) + 1
           h == TopicHandlers[n]
       IN /\ topicSubs' = [t \in DOMAIN topicSubs \cup {h.topic} |->
                             IF t = h.topic THEN h.handler ELSE topicSubs[t]]
          /\ spc' = IF n = Len(TopicHandlers) THEN "run_forever" ELSE "subscribe"
    /\ UNCHANGED <<workerSubs, tconnected, uuidClock, submitted, sent, failures,
                   requests, wevents, svcFrame>>

\* Line 56: the worker loop starts.
Service_run_forever ==
    /\ spc = "run_forever"
    /\ spc' = "running"
    /\ UNCHANGED <<workerSubs, tconnected, topicSubs, uuidClock, submitted, sent,
                   failures, requests, wevents, svcFrame>>

\* A peer's message arrives on a subscribed topic and the broker's listener
\* thread invokes the handler registered for it.
InboundRequest ==
    /\ tconnected /\ Len(requests) < MaxRequests
    /\ \E topic \in DOMAIN topicSubs, reply \in ReplyDests \cup {NoReply},
          task \in RunPlans :
         /\ topic = "worker.run" \/ task = "sleep"
         /\ requests' = Append(requests, [topic |-> topic, reply |-> reply,
                                          task |-> task])
         /\ Invoke(topicSubs[topic], Len(requests) + 1, reply, task)
    /\ UNCHANGED <<spc, workerSubs, tconnected, topicSubs, wevents, svcFrame>>

\* The running worker emits an in-process event of one kind; the callback
\* registered for that stream republishes it (lines 58-65).
Republish(kind) ==
    /\ spc = "running" /\ Len(wevents) < MaxWorkerEvents
    /\ kind \in workerSubs
    /\ wevents' = Append(wevents, [kind |-> kind, n |-> Len(wevents) + 1])
    /\ sent' = Append(sent, Sent(EventTopic(kind), "event",
                                 [kind |-> kind, n |-> Len(wevents) + 1], 0))
    /\ UNCHANGED <<spc, workerSubs, tconnected, topicSubs, uuidClock, submitted,
                   failures, requests, svcFrame>>

Service_on_worker_event == Republish("worker")
Service_on_task_event == Republish("task")
Service_on_data_event == Republish("data")

\* ctx as the module builds it (lines 15-34): the plans of the plan module
\* and the devices x, y (one class) and det; which protocols those classes
\* implement is decided outside this file.
DeviceProtocols == {{}, {"Readable"}, {"Readable", "Flyable"}}
SvcInit ==
    /\ spc = "init"
    /\ workerSubs = {}
    /\ tconnected = FALSE
    /\ topicSubs = <<>>
    /\ uuidClock = 0
    /\ submitted = <<>>
    /\ sent = <<>>
    /\ failures = <<>>
    /\ requests = <<>>
    /\ wevents = <<>>
    /\ plans = <<"count", "scan">>
    /\ \E gauss \in DeviceProtocols :
         devices = <<[name |-> "x", protocols |-> {"Movable", "Readable"}],
                     [name |-> "y", protocols |-> {"Movable", "Readable"}],
                     [name |-> "det", protocols |-> gauss]>>

SvcNext ==
    \/ Service_run_listen
    \/ Service_run_connect
    \/ Service_run_subscribe
    \/ Service_run_forever
    \/ InboundRequest
    \/ Service_on_worker_event
    \/ Service_on_task_event
    \/ Service_on_data_event

\* The part that does not move under each specification.
SvcIdle ==
    /\ spc = "init" /\ workerSubs = {} /\ tconnected = FALSE /\ topicSubs = <<>>
    /\ uuidClock = 0 /\ submitted = <<>> /\ sent = <<>> /\ failures = <<>>
    /\ requests = <<>> /\ wevents = <<>> /\ plans = <<>> /\ devices = <<>>
CliIdle ==
    /\ cmd = "run" /\ stomp = TRUE /\ parameters = "valid" /\ timeout = "none"
    /\ pc = "start" /\ task_id = "" /\ finished_event = <<>> /\ out = <<>>
    /\ exc = "" /\ processed = <<>> /\ connected = FALSE /\ subscription = {}
    /\ completeBuf = <<>> /\ timed_out = "unset" /\ waited = FALSE
    /\ inflight = <<>> /\ dcur = <<>> /\ observed = <<>> /\ trace = <<>>
    /\ workerTasks = {} /\ started = {} /\ emitted = 0

Init == CliInit /\ SvcIdle
Next == CliNext
Spec == Init /\ [][Next]_vars

ServiceInit == SvcInit /\ CliIdle
ServiceNext == SvcNext
ServiceSpec == ServiceInit /\ [][ServiceNext]_vars

\* ===================================================================
\* Properties of the controller CLI (checked under Spec)
\* ===================================================================
OpsAt(o) == {i \in 1..Len(trace) : trace[i].op = o}
\* The terminal events of the tracked task the registered handler was
\* invoked with, in the order it saw them.
TerminalObserved == SelectSeq(observed, LAMBDA e : is_complete(e) /\ e.task = task_id)

\* C1: whenever run_plan issues the start command (update_worker_task), the
\* client has connected, has subscribed for that same task id before, and
\* has not disconnected since.
C1_StartAfterSubscribe ==
    \A i \in OpsAt("update_worker_task") :
        /\ \E j \in 1..(i - 1) :
              /\ trace[j] = Op("subscribe", task_id)
              /\ \E k \in 1..(j - 1) : trace[k].op = "connect"
        /\ \A m \in 1..(i - 1) : trace[m].op # "disconnect"
        /\ task_id \in TaskIds

\* C1 witness: the start command was accepted for the tracked task.
C1_Witness == Op("update_worker_task", "t1") \in Range(trace) /\ pc = "wait"

\* C2 (as claimed): the event run_plan hands to completion handling is the
\* first terminal event the handler observed for the tracked task id.
C2_FirstTerminalReported ==
    processed # <<>> => processed[1] = TerminalObserved[1]

\* C4: the broker connection is open exactly while the command is inside
\* the scoped block, and closed on every way out of it: no finished command
\* (normal completion, timeout, an error of subscribe_to_topics,
\* update_worker_task or wait_for_complete, end of listen_to_events) leaves
\* it open.
InsideBlock == pc \in {"subscribe", "update", "wait", "check", "input"}
C4_ClosedOnEveryExit ==
    /\ connected <=> InsideBlock
    /\ pc \in {"process", "done"} =>
          /\ ~connected /\ subscription = {}
          /\ Cardinality(OpsAt("connect")) = Cardinality(OpsAt("disconnect"))

\* C4 witness: a command that had opened the connection returned on timeout.
C4_Witness ==
    /\ pc = "done" /\ timed_out = "true"
    /\ OpsAt("connect") # {} /\ OpsAt("disconnect") # {}

\* C5: when the wait times out nothing is raised, timed_out is set, and the
\* command ends having reported the timeout, processed no terminal event
\* and sent the worker nothing but create_task and the start command; the
\* task stays registered and started.
TimeoutMsg == Msg("error", "Plan did not complete within timeout")
C5_TimeoutLeavesTaskAlone ==
    (cmd = "run" /\ timed_out = "true") =>
        /\ exc = ""
        /\ processed = <<>>
        /\ \A i \in 1..Len(trace) :
              trace[i].op \in {"create_task", "connect", "subscribe",
                               "update_worker_task", "disconnect"}
        /\ Cardinality(OpsAt("update_worker_task")) = 1
        /\ task_id \in workerTasks /\ task_id \in started
        /\ pc \in {"check", "done"}
        /\ pc = "done" => out = <<TimeoutMsg>>

\* C5 witness: the command ended on a timeout while a terminal event that
\* arrived too late sits in the deque.
C5_Witness ==
    /\ cmd = "run" /\ pc = "done" /\ timed_out = "true"
    /\ finished_event # <<>>

\* C6: with parameters that fail validation, run_plan reports the failure
\* and returns; the broker connection is never opened, nothing is
\* subscribed, no start command is issued and no task is registered.
ValidationMsg == Msg("pprint", "failed to validate the task parameters")
C6_ValidationFailsEarly ==
    (cmd = "run" /\ stomp /\ parameters = "invalid") =>
        /\ OpsAt("connect") = {} /\ OpsAt("subscribe") = {}
        /\ OpsAt("update_worker_task") = {}
        /\ ~connected /\ subscription = {}
        /\ workerTasks = {} /\ started = {} /\ task_id = ""
        /\ pc \in {"start", "create", "done"}
        /\ pc = "done" => (out = <<ValidationMsg>> /\ exc = "")

\* C6 witness: the command ended after create_task failed validation.
C6_Witness ==
    /\ cmd = "run" /\ parameters = "invalid" /\ pc = "done"
    /\ out = <<ValidationMsg>>

\* C7 (as claimed, its safety half): the handler registered through
\* subscribe_to_topics records at most one terminal event of the tracked
\* task.
C7_AtMostOneTerminalRecorded ==
    Len(TerminalObserved) <= 1 /\ Len(finished_event) <= 1

\* C9 (as claimed): a remote error raised by a controller operation
\* (create_task, update_worker_task, set_state, cancel_current_task,
\* get_state, get_plans, get_devices) is caught and reported by the
\* command; it never escapes.
RestOps == {"create_task", "update_worker_task", "set_state",
            "cancel_current_task", "get_state", "get_plans", "get_devices"}
RestRejected == \E i \in 1..Len(trace) :
                    trace[i].op \in RestOps /\ trace[i].arg = "rejected"
C9_RemoteErrorsCaught ==
    (pc = "done" /\ RestRejected) => (exc = "" /\ out # <<>>)

\* ===================================================================
\* Properties of the worker-side bridge (checked under ServiceSpec)
\* ===================================================================
RequestsOn(topic) == {i \in 1..Len(requests) : requests[i].topic = topic}
RepliesTo(i) == {k \in 1..Len(sent) : sent[k].req = i}
SubmittedFor(i) == {k \in 1..Len(submitted) : submitted[k].req = i}
FailuresOf(i) == {k \in 1..Len(failures) : failures[k].req = i}

\* C3 (as claimed): a query on the devices topic is answered with the list
\* of device descriptors, a query on the plans topic with the list of plan
\* descriptors, each sent only to the requester's reply destination.
C3_QueriesAnswered ==
    /\ \A i \in RequestsOn("worker.devices") : \A k \in RepliesTo(i) :
          /\ sent[k].dest = requests[i].reply
          /\ sent[k].payload.kind = "devices"
          /\ sent[k].payload.body = DeviceDescriptors
    /\ \A i \in RequestsOn("worker.plans") : \A k \in RepliesTo(i) :
          /\ sent[k].dest = requests[i].reply
          /\ sent[k].payload.kind = "plans"
          /\ sent[k].payload.body = PlanDescriptors

\* C8: every run-request that carries a reply destination gets a task id no
\* other request got, has its task submitted to the worker under that id
\* exactly once, and gets exactly one reply, carrying that id, sent to its
\* own reply destination.
C8_RunRequestReplied ==
    /\ \A i \in RequestsOn("worker.run") :
          requests[i].reply # NoReply =>
             /\ Cardinality(SubmittedFor(i)) = 1
             /\ Cardinality(RepliesTo(i)) = 1
             /\ \A k \in RepliesTo(i), j \in SubmittedFor(i) :
                   /\ sent[k].dest = requests[i].reply
                   /\ sent[k].payload.kind = "id"
                   /\ sent[k].payload.body = submitted[j].name
                   /\ submitted[j].task = requests[i].task
    /\ \A j, k \in 1..Len(submitted) :
          j # k => submitted[j].name # submitted[k].name

\* C8 witness: two run-requests with different reply destinations were both
\* answered.
C8_Witness ==
    \E i, j \in RequestsOn("worker.run") :
        /\ requests[i].reply = "reply.a" /\ requests[j].reply = "reply.b"
        /\ RepliesTo(i) # {} /\ RepliesTo(j) # {}

\* C10: a run-request, plans query or devices query without a reply
\* destination makes its handler fail with the assertion, and no message is
\* sent to any destination for that request.
C10_MissingReplyIsFatal ==
    \A i \in 1..Len(requests) :
        /\ requests[i].reply = NoReply =>
              /\ RepliesTo(i) = {}
              /\ Cardinality(FailuresOf(i)) = 1
              /\ \A k \in FailuresOf(i) : failures[k].exc = "AssertionError"
        /\ requests[i].reply # NoReply => FailuresOf(i) = {}

\* C10 witness: a plans query and a run-request arrived without a reply
\* destination and both handlers failed.
C10_Witness ==
    \E i \in RequestsOn("worker.plans"), j \in RequestsOn("worker.run") :
        /\ requests[i].reply = NoReply /\ requests[j].reply = NoReply
        /\ FailuresOf(i) # {} /\ FailuresOf(j) # {}


\* ===================================================================
\* Completion handling and the remaining paths of run_plan (under Spec)
\* ===================================================================
PlanPassed == Msg("info", "Plan passed")
UpdatedMsg == Msg("pprint", "updated")
ErrorMsgs(e) == [i \in 1..Len(e.errors) |-> Msg("error", e.errors[i])]
WarnMsgs(e) == [i \in 1..Len(e.warnings) |-> Msg("warn", e.warnings[i])]

\* C11 (as claimed): a terminal event without errors makes completion
\* handling report "Plan passed"; one with errors makes it report the
\* failure with each error and not "Plan passed".
C11_NoErrorsMeansPlanPassed ==
    processed # <<>> =>
        /\ processed[1].errors = <<>> => PlanPassed \in Range(out)
        /\ processed[1].errors # <<>> =>
              /\ PlanPassed \notin Range(out)
              /\ \A i \in 1..Len(processed[1].errors) :
                    Msg("error", processed[1].errors[i]) \in Range(out)

\* C11 (amended): a terminal event with neither errors nor warnings is
\* reported as "Plan passed"; one with errors as a failure followed by each
\* error, in order; one with warnings and no errors as "Passed with
\* warnings" followed by each warning; only the first case reports "Plan
\* passed".
C11_CompletionReport ==
    processed # <<>> =>
        LET e == processed[1] IN
        /\ pc = "done" /\ exc = ""
        /\ (e.errors = <<>> /\ e.warnings = <<>>) => out = <<PlanPassed, UpdatedMsg>>
        /\ e.errors # <<>> =>
              out = <<Msg("info", "Failed with errors")>> \o ErrorMsgs(e) \o <<UpdatedMsg>>
        /\ (e.errors = <<>> /\ e.warnings # <<>>) =>
              out = <<Msg("info", "Passed with warnings")>> \o WarnMsgs(e) \o <<UpdatedMsg>>

\* C11 witness: an event with two errors and a warning went through
\* completion handling.
C11_Witness ==
    /\ processed # <<>> /\ pc = "done"
    /\ Len(processed[1].errors) = 2 /\ processed[1].warnings # <<>>


\* ===================================================================
\* Republishing and start-up of the bridge (under ServiceSpec)
\* ===================================================================
\* The messages the bridge sent that answer no request, in order.
Republished == SelectSeq(sent, LAMBDA m : m.req = 0)

\* C12: every in-process worker event is republished exactly once,
\* unmodified, to the topic of its kind (worker-state events to
\* worker.event, task events to worker.event.task, data events to
\* worker.event.data) and to no other; events leave in the order the worker
\* emitted them.
C12_RepublishedVerbatim ==
    /\ Len(Republished) = Len(wevents)
    /\ \A i \in 1..Len(Republished) :
          /\ Republished[i].payload.kind = "event"
          /\ Republished[i].payload.body = wevents[i]
          /\ wevents[i].kind = "worker" => Republished[i].dest = "worker.event"
          /\ wevents[i].kind = "task" => Republished[i].dest = "worker.event.task"
          /\ wevents[i].kind = "data" => Republished[i].dest = "worker.event.data"
    /\ \A k \in 1..Len(sent) :
          sent[k].dest \in {"worker.event", "worker.event.task", "worker.event.data"}
             => sent[k].req = 0

\* C12 witness: two task events and, between them, an answered request.
C12_Witness ==
    /\ Len(wevents) = 2 /\ wevents[1].kind = "task" /\ wevents[2].kind = "task"
    /\ Len(sent) = 3 /\ sent[2].req # 0


\* ===================================================================
\* More paths of run_plan (under Spec)
\* ===================================================================
ConnFailedMsg == Msg("print", "Failed to establish connection to FastAPI server.")

\* C13: when create_task cannot reach the server, run_plan ends at once and
\* cleanly: the connection-failure message is all it prints, no exception
\* leaves the command, no broker connection was opened, nothing was
\* subscribed, no start command was issued and no task exists.
C13_UnreachableAtCreate ==
    (cmd = "run" /\ Op("create_task", "unreachable") \in Range(trace)) =>
        /\ trace = <<Op("create_task", "unreachable")>>
        /\ ~connected /\ subscription = {}
        /\ workerTasks = {} /\ started = {} /\ task_id = ""
        /\ pc = "done" /\ exc = "" /\ out = <<ConnFailedMsg>>

\* C13 witness: run_plan ended on the connection error of create_task.
C13_Witness ==
    /\ cmd = "run" /\ pc = "done"
    /\ trace = <<Op("create_task", "unreachable")>>


\* C14: wait_for_complete with timeout 0 never puts the caller to sleep and
\* can always return at once; it returns timed_out false when the
\* completion buffer already holds a terminal event of the tracked task and
\* timed_out true otherwise.
C14_ZeroTimeoutNeverBlocks ==
    /\ []((cmd = "run" /\ timeout = "zero") =>
            /\ ~waited
            /\ pc = "wait" => (ENABLED rp_wait_complete \/ ENABLED rp_wait_timeout))
    /\ [][(cmd = "run" /\ timeout = "zero" /\ pc = "wait" /\ pc' = "check") =>
            /\ completeBuf # <<>> =>
                  /\ timed_out' = "false"
                  /\ is_complete(completeBuf[1]) /\ completeBuf[1].task = task_id
            /\ completeBuf = <<>> => timed_out' = "true"]_vars

\* C14 witness: with timeout 0 the wait found the buffer already filled.
C14_Witness ==
    /\ cmd = "run" /\ timeout = "zero" /\ pc = "check" /\ timed_out = "false"


\* C15: once wait_for_complete has returned with timed_out false, the deque
\* finished_event holds a terminal event of the tracked task, whatever the
\* delivery thread and the waiting thread did in between; the pop at the
\* end of run_plan never finds it empty.
C15_StoreFilledBeforePop ==
    (cmd = "run" /\ timed_out = "false") =>
        /\ pc \in {"check", "process"} =>
              /\ finished_event # <<>>
              /\ \A i \in 1..Len(finished_event) :
                    is_complete(finished_event[i]) /\ finished_event[i].task = task_id
        /\ exc # "IndexError"
        /\ pc = "done" => processed # <<>>

\* C15 witness: run_plan is about to pop while the delivery thread is still
\* in the middle of a later event.
C15_Witness ==
    /\ cmd = "run" /\ pc = "process" /\ timed_out = "false"
    /\ dcur # <<>> /\ Len(finished_event) = 2

\* C17: without stomp configuration run_plan reports the error and returns
\* before create_task: nothing is sent to the worker, no task exists, the
\* broker connection is never opened and no start command is issued.
NoStompMsg == Msg("pprint",
    "ERROR: Cannot run plans without Stomp configuration to track progress")
C17_NoStompReturnsEarly ==
    (cmd = "run" /\ ~stomp) =>
        /\ trace = <<>> /\ workerTasks = {} /\ started = {} /\ task_id = ""
        /\ ~connected /\ subscription = {}
        /\ pc \in {"start", "done"}
        /\ pc = "done" => (out = <<NoStompMsg>> /\ exc = "")

\* C17 witness: run_plan ended on the missing configuration although its
\* parameters were not even JSON.
C17_Witness ==
    /\ cmd = "run" /\ ~stomp /\ pc = "done" /\ parameters = "not_json"
    /\ out = <<NoStompMsg>>


\* ===================================================================
\* Order of the steps of the bridge (under ServiceSpec)
\* ===================================================================
\* C16: a run-request without a reply destination has its task submitted
\* to the worker, once and under an id of its own, before the handler fails
\* on the missing destination; no reply carrying that id is sent.
C16_SubmittedBeforeReplyCheck ==
    \A i \in RequestsOn("worker.run") :
        requests[i].reply = NoReply =>
            /\ Cardinality(SubmittedFor(i)) = 1
            /\ Cardinality(FailuresOf(i)) = 1
            /\ RepliesTo(i) = {}
            /\ \A j \in SubmittedFor(i) :
                  /\ submitted[j].task = requests[i].task
                  /\ \A k \in 1..Len(submitted) :
                        k # j => submitted[k].name # submitted[j].name
                  /\ \A k \in 1..Len(sent) :
                        sent[k].payload.kind = "id" =>
                           sent[k].payload.body # submitted[j].name

\* C16 witness: an answered run-request was followed by one without a reply
\* destination.
C16_Witness ==
    /\ Len(requests) = 2 /\ Len(submitted) = 2 /\ Len(sent) = 1
    /\ requests[1].topic = "worker.run" /\ requests[1].reply # NoReply
    /\ requests[2].topic = "worker.run" /\ requests[2].reply = NoReply
    /\ FailuresOf(2) # {}

\* C18: the bridge's broker connection is established before any topic is
\* subscribed and before the worker loop runs: no request is handled and no
\* worker event is republished without it.
C18_ConnectedFirst ==
    /\ DOMAIN topicSubs # {} => tconnected
    /\ spc \in {"subscribe", "run_forever", "running"} => tconnected
    /\ (requests # <<>> \/ sent # <<>> \/ wevents # <<>> \/ submitted # <<>>)
          => tconnected
    /\ spc \in {"init", "connect", "crashed"} =>
          (DOMAIN topicSubs = {} /\ requests = <<>> /\ sent = <<>> /\ wevents = <<>>)

\* C18 witness: the worker loop runs, a request was handled and a worker
\* event republished.
C18_Witness ==
    /\ spc = "running" /\ tconnected
    /\ requests # <<>> /\ Republished # <<>>

====
